---- MODULE Spec2Model ----
(***************************************************************************)
(* Model of src/SRC/index.ts: an Express application with one webhook      *)
(* route, POST /api/vapi/webhook, that answers call events of the voice    *)
(* platform.  An 'assistant-request' event is answered with text produced  *)
(* by generateAIResponse (a fixed greeting, or the first choice of one     *)
(* chat-completion call); every other event is acknowledged.               *)
(*                                                                         *)
(* Several requests are in flight at once.  Each occupies a slot; a slot   *)
(* holds what one invocation of the async handler holds: the parsed body,  *)
(* its locals, the promise of its provider call and the responses written  *)
(* to its socket.  JavaScript runs each synchronous stretch of a handler   *)
(* to completion, so an action is one such stretch.                        *)
(***************************************************************************)
EXTENDS Integers, Sequences, FiniteSets, TLC

\* Number of requests that can be in flight at the same time.
MaxInFlight == 2

Slots == 1..MaxInFlight

VARIABLES
  apiKey,       \* process.env.OPENAI_API_KEY is set
  pc,           \* per slot: where the request's handling stands
  req,          \* per slot: the HTTP request as it arrived
  body,         \* per slot: req.body as the handler sees it
  userMessage,  \* per slot: the handler's local userMessage
  pending,      \* per slot: the provider request whose promise is unsettled
  settled,      \* per slot: the outcome the provider call's promise settled to
  calls,        \* per slot: the provider requests issued while handling it
  out           \* per slot: the responses written to the socket, in order

vars == <<apiKey, pc, req, body, userMessage, pending, settled, calls, out>>

----------------------------------------------------------------------------
(* JavaScript values, as far as the handler distinguishes them.            *)

Undef == [t |-> "undefined"]
Null == [t |-> "null"]
Str(s) == [t |-> "string", s |-> s]
Num(n) == [t |-> "number", n |-> n]
Obj(f) == [t |-> "object", f |-> f]
Arr(a) == [t |-> "array", a |-> a]
\* Marks an expression that raised instead of yielding a value.
Thrown == [t |-> "throw"]
\* A slot's variable that holds nothing.
None == [t |-> "none"]

NoFields == [k \in {} |-> Undef]

\* v is null or undefined.
Nullish(v) == v.t \in {"undefined", "null"}

\* ToBoolean(v), as `!v` and `v || d` apply it.
Truthy(v) ==
  CASE v.t \in {"undefined", "null"} -> FALSE
    [] v.t = "string" -> v.s # ""
    [] v.t = "number" -> v.n # 0
    [] OTHER -> TRUE

\* v.k : raises a TypeError on null and undefined; a property that is not
\* there reads as undefined.
Get(v, k) ==
  IF Nullish(v) THEN Thrown
  ELSE IF v.t = "object" /\ k \in DOMAIN v.f THEN v.f[k]
  ELSE Undef

\* v?.k
OptGet(v, k) == IF Nullish(v) THEN Undef ELSE Get(v, k)

\* v?.[0]
OptFirst(v) ==
  IF Nullish(v) THEN Undef
  ELSE IF v.t = "array" /\ Len(v.a) >= 1 THEN v.a[1]
  ELSE Undef

\* v === w for a string w
StrictEq(v, w) == v.t = "string" /\ w.t = "string" /\ v.s = w.s

\* v || d
Or(v, d) == IF Truthy(v) THEN v ELSE d

\* v ?? d
Coalesce(v, d) == IF Nullish(v) THEN d ELSE v

----------------------------------------------------------------------------
(* The fixed strings of the program.                                       *)

AssistantRequest == Str("assistant-request")
Greeting == Str("Hello! Thanks for calling. I'm here to share how we partner with business owners like yourself to unlock new growth opportunities. To start, I'd love to learn about your business. What industry are you in?")
Fallback == Str("I'm here to help. Could you tell me more about your business?")
Apology == Str("I apologize, I'm having a brief technical issue. Could you repeat that?")
SystemPrompt == Str("You are a knowledgeable business advisor helping business owners explore growth and partnership opportunities.")
InternalError == "Internal server error"

----------------------------------------------------------------------------
(* The requests a client can send.                                         *)

\* Marks a field that the JSON text does not contain.
Absent == [t |-> "absent"]

\* The message object {type, transcript}, with only the fields given.
MessageObject(ty, tr) ==
  Obj([k \in {f \in {"type", "transcript"} :
                (f = "type" /\ ty # Absent) \/ (f = "transcript" /\ tr # Absent)}
         |-> IF k = "type" THEN ty ELSE tr])

\* What an assistant-request carries as its transcript, and the events of
\* another type or of none, with and without a transcript.
Transcripts == {Absent, Null, Str(""), Str("hello"), Str("pricing"), Num(42)}
OtherTypes == {Absent, Str("status-update")}
Messages ==
  {Null, Str("ping")}
    \cup {MessageObject(AssistantRequest, tr) : tr \in Transcripts}
    \cup {MessageObject(ty, tr) : ty \in OtherTypes, tr \in {Absent, Str("hello")}}
Bodies == {Obj(NoFields)} \cup {Obj([message |-> m]) : m \in Messages}

\* kind "json": Content-Type application/json and a well-formed object;
\* kind "malformed": Content-Type application/json and text that does not parse;
\* kind "nojson": no JSON content type, so that express.json() parses nothing.
HttpRequests ==
  {[kind |-> "json", json |-> b] : b \in Bodies}
    \cup {[kind |-> "malformed", json |-> Undef], [kind |-> "nojson", json |-> Undef]}

\* One request for every path through the middleware and the handler.
LiveRequests ==
  {[kind |-> "json", json |-> Obj([message |-> m])] :
     m \in {MessageObject(Str("status-update"), Absent),
            MessageObject(AssistantRequest, Absent),
            MessageObject(AssistantRequest, Str("hello"))}}
    \cup {[kind |-> "malformed", json |-> Undef], [kind |-> "nojson", json |-> Undef]}

NoRequest == [kind |-> "idle", json |-> Undef]

JsonResponse(status, b) == [status |-> status, type |-> "json", body |-> b]

----------------------------------------------------------------------------
(* app.use(express.json()) and the framework's default error handler.      *)

\* What the body parser hands on for a request.  A parse failure is passed
\* to next(err) with err.status = 400, which skips the route.  Without a
\* JSON content type nothing is parsed, and req.body is {} under express 4
\* and undefined under express 5: the source does not pin the version.
JsonMiddleware(rq) ==
  CASE rq.kind = "json" -> {[next |-> "route", body |-> rq.json]}
    [] rq.kind = "malformed" -> {[next |-> "error", body |-> Undef]}
    [] OTHER -> {[next |-> "route", body |-> Obj(NoFields)],
                 [next |-> "route", body |-> Undef]}

\* The application registers no error-handling middleware, so an error
\* passed to next() is answered by the framework: err.status and an HTML page.
DefaultErrorResponses ==
  << [status |-> 400, type |-> "html", body |-> [error |-> "SyntaxError"]] >>

----------------------------------------------------------------------------
(* generateAIResponse                                                      *)

\* Faulty variant: tests for undefined alone, so '' is sent to the provider.
IsFirstTurn_UndefinedOnly(um) == um.t = "undefined"

\* if (!userMessage)
IsFirstTurn(um) == ~Truthy(um)

\* new OpenAI({ apiKey: process.env.OPENAI_API_KEY }) raises without a key.
ClientConstructs(key) == key

\* The argument of openai.chat.completions.create.
BuildRequest(um) ==
  [model |-> "gpt-4",
   messages |-> << [role |-> "system", content |-> SystemPrompt],
                   [role |-> "user", content |-> um] >>,
   temperature |-> "0.7",
   max_tokens |-> 150]

\* Faulty variant: the call is issued a second time.
ProviderRequests_Twice(um) == << BuildRequest(um), BuildRequest(um) >>

\* The provider requests one invocation issues: the single create() call.
ProviderRequests(um) == << BuildRequest(um) >>

\* Faulty variant: the catch block lets the error through.
CatchOpenAIError_Rethrow == [kind |-> "throw", value |-> Undef]

\* catch (error) { console.error(...); return <apology> }
CatchOpenAIError == [kind |-> "return", value |-> Apology]

\* generateAIResponse up to its await: what it returns, or the calls it
\* issued and now awaits.
GenStart(um, key) ==
  IF IsFirstTurn(um) THEN [kind |-> "return", value |-> Greeting]
  ELSE IF ~ClientConstructs(key) THEN CatchOpenAIError
  ELSE [kind |-> "await", value |-> Undef]

\* completion?.choices?.[0]?.message?.content
ExtractContent(completion) ==
  OptGet(OptGet(OptFirst(OptGet(completion, "choices")), "message"), "content")

\* Faulty variant: `||`, which also replaces the empty string.
UnwrapContent_Or(content) == Or(content, Fallback)

\* Faulty variant: tests for null alone, so undefined is returned.
UnwrapContent_NullOnly(content) == IF content = Null THEN Fallback ELSE content

\* content ?? <fallback>
UnwrapContent(content) == Coalesce(content, Fallback)

\* generateAIResponse after its await, given what the promise settled to.
GenResume(outcome) ==
  IF outcome.kind = "reject" THEN CatchOpenAIError
  ELSE [kind |-> "return", value |-> UnwrapContent(ExtractContent(outcome.completion))]

----------------------------------------------------------------------------
(* app.post('/api/vapi/webhook', ...)                                      *)

\* const { message } = req.body : raises when req.body is undefined.
Destructure(b) == Get(b, "message")

\* Faulty variant: message.type, without the optional chaining.
MessageType_NoOptional(message) == Get(message, "type")

\* message?.type
MessageType(message) == OptGet(message, "type")

\* Faulty variant: any event that has a type is taken for a request.
IsAssistantRequest_AnyType(ty) == Truthy(ty)

\* ... === 'assistant-request'
IsAssistantRequest(ty) == StrictEq(ty, AssistantRequest)

\* const userMessage = message.transcript || ''
ReadTranscript(message) == Or(Get(message, "transcript"), Str(""))

\* return res.json({ received: true })
AckResponses == << JsonResponse(200, [received |-> TRUE]) >>

\* Faulty variant: no `return`, so the acknowledgment is written as well.
ReplyResponses_NoReturn(text) ==
  << JsonResponse(200, [response |-> text]) >> \o AckResponses

\* return res.json({ response })
ReplyResponses(text) == << JsonResponse(200, [response |-> text]) >>

\* Faulty variant: the name of the error is sent to the caller.
CatchResponses_Leak == << JsonResponse(500, [error |-> "TypeError"]) >>

\* catch (error) { ...; res.status(500).json({ error: 'Internal server error' }) }
CatchResponses == << JsonResponse(500, [error |-> InternalError]) >>

\* The handler from `await generateAIResponse(...)` on: the generator's
\* value is sent, and an exception it let through reaches the catch block.
Finish(gen) ==
  IF gen.kind = "throw" THEN CatchResponses ELSE ReplyResponses(gen.value)

\* The handler from its entry up to the provider call or the response.
\*   kind "respond": the responses written, with nothing awaited;
\*   kind "await": the provider requests issued, the last of them awaited.
HandlerEntry(b, key) ==
  LET message == Destructure(b)
      ty == IF message = Thrown THEN Thrown ELSE MessageType(message)
      um == IF ty = Thrown THEN Thrown ELSE ReadTranscript(message)
      caught == [kind |-> "respond", userMessage |-> None,
                 responses |-> CatchResponses, requests |-> << >>]
  IN  IF ty = Thrown THEN caught
      ELSE IF IsAssistantRequest(ty) THEN
        IF um = Thrown THEN caught
        ELSE LET gen == GenStart(um, key)
             IN  IF gen.kind = "await"
                 THEN [kind |-> "await", userMessage |-> um,
                       responses |-> << >>, requests |-> ProviderRequests(um)]
                 ELSE [kind |-> "respond", userMessage |-> um,
                       responses |-> Finish(gen), requests |-> << >>]
      ELSE [kind |-> "respond", userMessage |-> None,
            responses |-> AckResponses, requests |-> << >>]

----------------------------------------------------------------------------
(* The completion provider: an external service, free in what it answers.  *)

Choices(cs) == Obj([choices |-> Arr(cs)])
WithContent(c) == Choices(<< Obj([message |-> Obj([content |-> c])]) >>)

\* The text a provider that answers the prompt produces for it.
ReplyTo(request) ==
  LET u == request.messages[2].content
  IN  IF u.t = "string" THEN Str("re:" \o u.s) ELSE Str("re:")

Completions(request) ==
  { Obj(NoFields),                                \* no choices list
    Choices(<< >>),                               \* empty choices list
    Choices(<< Obj(NoFields) >>),                 \* a choice without a message
    WithContent(Null),
    WithContent(Str("")),
    WithContent(ReplyTo(request)) }

\* What the promise of create(request) can settle to.
ProviderOutcomes(request) ==
  {[kind |-> "reject", completion |-> Undef]}
    \cup {[kind |-> "resolve", completion |-> c] : c \in Completions(request)}

\* Faulty variant: `completion` is a variable that all invocations share.
CompletionsVisible_Shared(r) == {settled[s] : s \in {t \in Slots : settled[t] # None}}

\* One outcome for every path of generateAIResponse after its await.
LiveOutcomes(request) ==
  {[kind |-> "reject", completion |-> Undef]}
    \cup {[kind |-> "resolve", completion |-> WithContent(c)] :
            c \in {Null, ReplyTo(request)}}

\* The settled outcomes the continuation of slot r can read: the local
\* `completion` of its own invocation.
CompletionsVisible(r) == {settled[r]}

----------------------------------------------------------------------------
(* The state machine.                                                      *)

Init ==
  /\ apiKey \in BOOLEAN
  /\ pc = [r \in Slots |-> "idle"]
  /\ req = [r \in Slots |-> NoRequest]
  /\ body = [r \in Slots |-> None]
  /\ userMessage = [r \in Slots |-> None]
  /\ pending = [r \in Slots |-> None]
  /\ settled = [r \in Slots |-> None]
  /\ calls = [r \in Slots |-> << >>]
  /\ out = [r \in Slots |-> << >>]

\* A request arrives and passes express.json(): it is dispatched to the
\* route, or its parse error is answered by the default error handler.
ReceiveFrom(r, requests) ==
  /\ pc[r] = "idle"
  /\ \E rq \in requests : \E m \in JsonMiddleware(rq) :
       /\ req' = [req EXCEPT ![r] = rq]
       /\ IF m.next = "route"
          THEN /\ body' = [body EXCEPT ![r] = m.body]
               /\ pc' = [pc EXCEPT ![r] = "handler"]
               /\ out' = out
          ELSE /\ body' = body
               /\ pc' = [pc EXCEPT ![r] = "done"]
               /\ out' = [out EXCEPT ![r] = DefaultErrorResponses]
  /\ UNCHANGED <<apiKey, userMessage, pending, settled, calls>>

Receive(r) == ReceiveFrom(r, HttpRequests)

\* The handler runs from its entry to its first suspension or its response.
Handler(r) ==
  /\ pc[r] = "handler"
  /\ LET h == HandlerEntry(body[r], apiKey)
     IN  /\ userMessage' = [userMessage EXCEPT ![r] = h.userMessage]
         /\ calls' = [calls EXCEPT ![r] = @ \o h.requests]
         /\ out' = [out EXCEPT ![r] = @ \o h.responses]
         /\ IF h.kind = "await"
            THEN /\ pending' = [pending EXCEPT ![r] = h.requests[Len(h.requests)]]
                 /\ pc' = [pc EXCEPT ![r] = "awaiting"]
            ELSE /\ pending' = pending
                 /\ pc' = [pc EXCEPT ![r] = "done"]
  /\ UNCHANGED <<apiKey, req, body, settled>>

\* The promise of the provider call of slot r settles.
SettleWith(r, outcomes) ==
  /\ pc[r] = "awaiting"
  /\ \E o \in outcomes :
       settled' = [settled EXCEPT ![r] = o]
  /\ pending' = [pending EXCEPT ![r] = None]
  /\ pc' = [pc EXCEPT ![r] = "resumable"]
  /\ UNCHANGED <<apiKey, req, body, userMessage, calls, out>>

ProviderSettle(r) == SettleWith(r, ProviderOutcomes(pending[r]))

\* generateAIResponse and then the handler continue after the await.
Resume(r) ==
  /\ pc[r] = "resumable"
  /\ \E o \in CompletionsVisible(r) :
       out' = [out EXCEPT ![r] = @ \o Finish(GenResume(o))]
  /\ pc' = [pc EXCEPT ![r] = "done"]
  /\ UNCHANGED <<apiKey, req, body, userMessage, pending, settled, calls>>

\* The response is out and the request is over: nothing of it is kept.
Close(r) ==
  /\ pc[r] = "done"
  /\ pc' = [pc EXCEPT ![r] = "idle"]
  /\ req' = [req EXCEPT ![r] = NoRequest]
  /\ body' = [body EXCEPT ![r] = None]
  /\ userMessage' = [userMessage EXCEPT ![r] = None]
  /\ settled' = [settled EXCEPT ![r] = None]
  /\ calls' = [calls EXCEPT ![r] = << >>]
  /\ out' = [out EXCEPT ![r] = << >>]
  /\ UNCHANGED <<apiKey, pending>>

Next ==
  \E r \in Slots :
    \/ Receive(r)
    \/ Handler(r)
    \/ ProviderSettle(r)
    \/ Resume(r)
    \/ Close(r)

Spec == Init /\ [][Next]_vars

\* The same machine over one request and one provider outcome for every
\* path, for the properties of progress.
ReceiveLive(r) == ReceiveFrom(r, LiveRequests)

SettleLive(r) == SettleWith(r, LiveOutcomes(pending[r]))

LiveNext ==
  \E r \in Slots :
    \/ ReceiveLive(r)
    \/ Handler(r)
    \/ SettleLive(r)
    \/ Resume(r)
    \/ Close(r)

\* The event loop runs every continuation that is ready, and the client of
\* the provider settles every call (with a reply, an error or its timeout).
Progress(r) ==
  /\ WF_vars(Handler(r))
  /\ WF_vars(SettleLive(r))
  /\ WF_vars(Resume(r))

FairSpec == Init /\ [][LiveNext]_vars /\ \A r \in Slots : Progress(r)

----------------------------------------------------------------------------
(* What the properties below speak of, read off the request as it was sent *)
(* and off the provider's answer.                                          *)

Done(r) == pc[r] = "done"

\* A field of an object of the payload, Absent when it is not there.
Field(v, k) == IF v.t = "object" /\ k \in DOMAIN v.f THEN v.f[k] ELSE Absent

\* The payload's message, its type and its transcript.
SentMessage(r) == IF req[r].kind = "json" THEN Field(req[r].json, "message") ELSE Absent
SentType(r) == Field(SentMessage(r), "type")
SentTranscript(r) == Field(SentMessage(r), "transcript")

\* A JSON payload reached the handler.
Delivered(r) == req[r].kind = "json"
IsAssistantEvent(r) == Delivered(r) /\ SentType(r) = AssistantRequest
EmptyTranscript(r) == SentTranscript(r) \in {Absent, Null, Str("")}

\* The provider call of slot r was rejected, resp. answered.
Rejected(r) == settled[r] # None /\ settled[r].kind = "reject"
Resolved(r) == settled[r] # None /\ settled[r].kind = "resolve"

\* The content of the first choice's message in a completion, Absent when
\* the choices list, its first element, the message or the content is missing.
FirstContent(c) ==
  LET cs == Field(c, "choices")
      first == IF cs.t = "array" /\ Len(cs.a) > 0 THEN cs.a[1] ELSE Absent
  IN  Field(Field(first, "message"), "content")

\* The one response {response: text} with status 200.
Replied(r, text) ==
  out[r] = << [status |-> 200, type |-> "json", body |-> [response |-> text]] >>

Acknowledged(r) ==
  out[r] = << [status |-> 200, type |-> "json", body |-> [received |-> TRUE]] >>

ServerError(r) ==
  out[r] = << [status |-> 500, type |-> "json", body |-> [error |-> "Internal server error"]] >>

----------------------------------------------------------------------------
(* Properties.                                                             *)

\* The provider call of an assistant-request with an utterance failed: the
\* promise was rejected, or the client could not be constructed without a key.
ProviderFailed(r) ==
  /\ IsAssistantEvent(r)
  /\ ~EmptyTranscript(r)
  /\ Rejected(r) \/ ~apiKey

\* C1: when the provider call of an assistant-request fails in any way
\* (rejection, or no client without OPENAI_API_KEY), the one response is
\* status 200 with the fixed apology; the failure does not leave
\* generateAIResponse, so the 500 shape is not produced.
C1_FailureGivesApology ==
  \A r \in Slots : Done(r) /\ ProviderFailed(r) => Replied(r, Apology)

C1_Witness ==
  \E r \in Slots : Done(r) /\ ProviderFailed(r) /\ Rejected(r) /\ Replied(r, Apology)

\* C2: an assistant-request whose transcript is empty or absent is answered
\* with status 200 and the fixed greeting, and no provider call is made
\* while handling it.
C2_EmptyGivesGreeting ==
  \A r \in Slots :
    IsAssistantEvent(r) /\ EmptyTranscript(r) =>
      /\ calls[r] = << >>
      /\ pending[r] = None
      /\ Done(r) => Replied(r, Greeting)

C2_Witness ==
  \E r \in Slots :
    /\ Done(r) /\ IsAssistantEvent(r) /\ SentTranscript(r) = Str("")
    /\ apiKey /\ Replied(r, Greeting) /\ calls[r] = << >>

\* C3: for an assistant-request with an utterance, every string X the
\* provider returns as the first choice's message content, the empty string
\* included, is the `response` field of the 200 response, unmodified.
C3_ContentReturnedVerbatim ==
  \A r \in Slots :
    (/\ Done(r) /\ IsAssistantEvent(r) /\ ~EmptyTranscript(r) /\ Resolved(r)
     /\ FirstContent(settled[r].completion).t = "string")
      => Replied(r, FirstContent(settled[r].completion))

C3_Witness ==
  \E r \in Slots :
    /\ Done(r) /\ IsAssistantEvent(r) /\ ~EmptyTranscript(r) /\ Resolved(r)
    /\ FirstContent(settled[r].completion) = Str("")
    /\ Replied(r, Str(""))

\* C4: for an assistant-request with an utterance whose provider call
\* succeeds with a first choice's message content that is null or absent
\* (no choices list, an empty one, a choice without a message), the response
\* is status 200 with the fixed fallback prompt.
C4_MissingContentGivesFallback ==
  \A r \in Slots :
    (/\ Done(r) /\ IsAssistantEvent(r) /\ ~EmptyTranscript(r) /\ Resolved(r)
     /\ FirstContent(settled[r].completion) \in {Absent, Null})
      => Replied(r, Str("I'm here to help. Could you tell me more about your business?"))

C4_Witness ==
  \E r \in Slots :
    /\ Done(r) /\ IsAssistantEvent(r) /\ ~EmptyTranscript(r) /\ Resolved(r)
    /\ settled[r].completion = Obj([choices |-> Arr(<< >>)])
    /\ Replied(r, Fallback)

\* C5: a JSON payload whose message.type is anything but 'assistant-request'
\* (no message, no type) is answered with exactly {received: true} and
\* status 200, whatever else it contains, and no provider call is made.
C5_OtherEventsAcknowledged ==
  \A r \in Slots :
    Delivered(r) /\ SentType(r) # AssistantRequest =>
      /\ calls[r] = << >>
      /\ pending[r] = None
      /\ Done(r) => Acknowledged(r)

C5_Witness ==
  \E r \in Slots :
    /\ Done(r) /\ Delivered(r) /\ SentType(r) = Str("status-update")
    /\ SentTranscript(r) = Str("hello") /\ Acknowledged(r)

\* The handler raised outside the inner provider call: req.body was
\* undefined when it was destructured.
RaisedInHandler(r) == req[r].kind = "nojson" /\ body[r] = Undef

\* Malformed JSON failed to parse in the body middleware.
ParseFailed(r) == req[r].kind = "malformed"

Dispatched(r) == body[r] # None

\* One of the three shapes the handler answers with.
HandlerShape(resp) ==
  /\ resp.type = "json"
  /\ \/ resp.status = 200 /\ DOMAIN resp.body = {"response"} /\ resp.body.response.t = "string"
     \/ resp.status = 200 /\ resp.body = [received |-> TRUE]
     \/ resp.status = 500 /\ resp.body = [error |-> "Internal server error"]

\* C7: every event given to the handler eventually gets exactly one
\* response: at no time has a second one been written, a request that is
\* done has one, every request in the handler gets there, and the response
\* is one of the three shapes.
C7_ExactlyOneResponse ==
  /\ [](\A r \in Slots :
          /\ Len(out[r]) <= 1
          /\ Dispatched(r) /\ Done(r) => Len(out[r]) = 1
          /\ Dispatched(r) /\ out[r] # << >> => HandlerShape(out[r][1]))
  /\ \A r \in Slots : (pc[r] = "handler") ~> (Done(r) /\ Len(out[r]) = 1)

C7_Witness ==
  \E r \in Slots :
    /\ Done(r) /\ Dispatched(r) /\ Resolved(r)
    /\ Len(out[r]) = 1 /\ HandlerShape(out[r][1])

\* C8: whatever the shape of a JSON body given to the handler (no message,
\* a message that is no object, no type, no transcript, a transcript that is
\* no string), reading it never raises: an absent transcript reads as the
\* empty string, and the request ends in a 200 response, not the 500 shape.
C8_PayloadNeverRaises ==
  \A r \in Slots :
    Delivered(r) /\ Done(r) =>
      /\ Len(out[r]) = 1
      /\ out[r][1].status = 200
      /\ ~ServerError(r)
      /\ IsAssistantEvent(r) /\ SentTranscript(r) \in {Absent, Null} =>
           userMessage[r] = Str("")

C8_Witness ==
  \E r, s \in Slots :
    /\ Done(r) /\ Delivered(r) /\ SentMessage(r) = Null /\ out[r][1].status = 200
    /\ Done(s) /\ IsAssistantEvent(s) /\ SentTranscript(s) = Num(42)
    /\ out[s][1].status = 200

\* The user turns of a provider request.
UserTurns(request) == SelectSeq(request.messages, LAMBDA m : m.role = "user")

\* The provider request carries one user turn, the transcript of slot r.
OwnPrompt(r, request) ==
  /\ Len(UserTurns(request)) = 1
  /\ UserTurns(request)[1].content = SentTranscript(r)
  /\ Len(request.messages) = 2

\* C9: with several requests in flight and their provider calls completing
\* in any order, a response depends on nothing but the request's own payload
\* and its own provider call's outcome: two requests with the same payload
\* and the same outcome get the same response, a reply made for a transcript
\* goes to the request that sent that transcript, and every provider request
\* has exactly one user turn, the request's own transcript.
C9_RequestsIndependent ==
  \A r \in Slots :
    /\ \A s \in Slots :
         (/\ Done(r) /\ Done(s)
          /\ req[r] = req[s] /\ body[r] = body[s] /\ settled[r] = settled[s])
           => out[r] = out[s]
    /\ \A u \in {"hello", "pricing"} :
         Done(r) /\ Len(out[r]) = 1 /\ out[r][1].body = [response |-> Str("re:" \o u)]
           => SentTranscript(r) = Str(u)
    /\ \A i \in 1..Len(calls[r]) : OwnPrompt(r, calls[r][i])
    /\ pending[r] # None => OwnPrompt(r, pending[r])

C9_Witness ==
  \E r, s \in Slots :
    /\ Done(r) /\ SentTranscript(r) = Str("hello") /\ Replied(r, Str("re:hello"))
    /\ pc[s] = "awaiting" /\ SentTranscript(s) = Str("pricing")
    /\ OwnPrompt(s, pending[s])

\* C10 as stated: the provider is called exactly once for an
\* assistant-request with an utterance and not at all otherwise.
C10_CalledOnceIffUtterance ==
  \A r \in Slots :
    Done(r) =>
      Len(calls[r]) = IF IsAssistantEvent(r) /\ ~EmptyTranscript(r) THEN 1 ELSE 0

\* C10 as amended: the provider is called at most once per request: exactly
\* once for an assistant-request with an utterance when the client can be
\* constructed (OPENAI_API_KEY is set), and not at all otherwise; a failed
\* call is not retried before the apology is returned.
C10_AtMostOneCall ==
  \A r \in Slots :
    /\ Len(calls[r]) <= 1
    /\ Done(r) =>
         Len(calls[r]) =
           IF IsAssistantEvent(r) /\ ~EmptyTranscript(r) /\ apiKey THEN 1 ELSE 0
    /\ Done(r) /\ Rejected(r) => Len(calls[r]) = 1 /\ Replied(r, Apology)

C10_Witness ==
  \E r \in Slots :
    /\ Done(r) /\ Rejected(r) /\ Len(calls[r]) = 1 /\ Replied(r, Apology)

====
